---- MODULE Spec2Model ----
(***************************************************************************)
(* The Text2SQL workflow of text2sql_agent.py: the AgentState record, the  *)
(* six node functions, the two routing functions and the LangGraph wiring  *)
(* of create_text2sql_graph, run once per question from the initial state  *)
(* that process_question_stream builds.                                    *)
(*                                                                         *)
(* Python strings are sequences of tokens (<<>> is the empty string), so   *)
(* that concatenation, stripping and "contains" are computed.  The         *)
(* language model, the SQLite store and the execution of generated code    *)
(* are the environment: each step draws their outcome from a small set.    *)
(***************************************************************************)
EXTENDS Integers, Sequences, FiniteSets, TLC

VARIABLES
    state,       \* the AgentState threaded through the nodes
    pc,          \* the node the graph runs next, "END", or "raised"
    trace,       \* the nodes run so far, in order
    first_exec,  \* outcome of the first execute_sql: "none", "ok", "fail"
    last_exec,   \* outcome of the latest execute_sql: "none", "ok", "fail"
    last_error,  \* the error text the latest failed execute_sql produced
    llm_calls,   \* chat-completion calls made so far, per node
    open_conns,  \* sqlite connections opened and not closed
    llm_fault,   \* a language-model call raised or gave an unusable reply
    fetched,     \* what the store gave the latest successful execute_sql
    planner,     \* what became of the planner's call: "none", "skipped",
                 \* "call_failed", "unparseable", "decided"
    rendered,    \* what happened inside generate_graph, "none" before it
    events,      \* the events process_question_stream has yielded: the type
                 \* and the node of each
    snapshot,    \* the state the latest node_end event carried, <<>> if none
    result,      \* the result the final event carried, <<>> if none
    writers,     \* the nodes that have assigned final_answer, in order
    current_state, \* the generator's own copy of the state
    stream       \* "open" until the terminal event is yielded, then "closed"

vars == <<state, pc, trace, first_exec, last_exec, last_error, llm_calls,
          open_conns, llm_fault, fetched, planner, rendered, events,
          snapshot, result, writers, current_state, stream>>

(***************************************************************************)
(* Program constants and model bounds.                                     *)
(***************************************************************************)
RetryLimit == 3
GiveUpLimit == 3
RowLimit == 100
RecursionLimit == 50
MaxSmallRows == 2

Nodes == {"generate_sql", "execute_sql", "generate_answer", "handle_error",
          "decide_graph_need", "generate_graph"}

(***************************************************************************)
(* Strings.                                                                *)
(***************************************************************************)
EmptyStr == <<>>

\* str(x) of a one-token text; the empty text has no token
Text(t) == IF t = "" THEN <<>> ELSE <<t>>

RECURSIVE LStrip(_)
LStrip(s) == IF s # <<>> /\ Head(s) = " " THEN LStrip(Tail(s)) ELSE s

RECURSIVE RStrip(_)
RStrip(s) ==
    IF s # <<>> /\ s[Len(s)] = " " THEN RStrip(SubSeq(s, 1, Len(s) - 1)) ELSE s

\* str.strip()
Strip(s) == RStrip(LStrip(s))

\* the markdown fence markers (three backquotes, with and without "sql")
FenceSql == "<fence>sql"

Fence == "<fence>"

\* str.replace(tok, "")
Remove(s, tok) == SelectSeq(s, LAMBDA t : t # tok)

\* content.strip(), both code-fence markers replaced by "", .strip() again
CleanFences(content) ==
    Strip(Remove(Remove(Strip(content), FenceSql), Fence))

(***************************************************************************)
(* query_result values: a plain string, or the json.dumps of a list of     *)
(* dicts.  json.dumps/json.loads keep string keys and int values as they   *)
(* are, so the document is carried as the list itself; what is lossy is    *)
(* dict(zip(...)), computed below.                                         *)
(***************************************************************************)
PlainStr(s) == [kind |-> "str", text |-> s, doc |-> <<>>]

NoResultsMarker == PlainStr(<<"No results found.">>)

JsonDumps(list) == [kind |-> "json", text |-> <<>>, doc |-> list]

\* json.loads: raises on anything that is not a JSON document
JsonLoads(q) ==
    IF q.kind = "json" THEN [ok |-> TRUE, value |-> q.doc]
                       ELSE [ok |-> FALSE, value |-> <<>>]

\* Python truthiness of a query_result string
NonEmptyResult(q) == q.kind = "json" \/ q.text # <<>>

\* dict(zip(column_names, row)): a repeated column name keeps the last value
DictZip(column_names, row) ==
    LET n == IF Len(column_names) < Len(row) THEN Len(column_names) ELSE Len(row)
        keys == {column_names[i] : i \in 1..n}
        last(k) == CHOOSE i \in 1..n :
                      /\ column_names[i] = k
                      /\ \A j \in 1..n : column_names[j] = k => j <= i
    IN  [k \in keys |-> row[last(k)]]

\* mutant of FormatResults: no [:100]
FormatResults_untruncated(results, column_names) ==
    IF results = <<>>
    THEN NoResultsMarker
    ELSE JsonDumps([i \in 1..Len(results) |-> DictZip(column_names, results[i])])

\* results[:100] turned into dicts, or the marker for an empty result
FormatResults(results, column_names) ==
    IF results = <<>>
    THEN NoResultsMarker
    ELSE LET m == IF Len(results) < RowLimit THEN Len(results) ELSE RowLimit
         IN  JsonDumps([i \in 1..m |-> DictZip(column_names, results[i])])

(***************************************************************************)
(* The environment's answers.                                              *)
(***************************************************************************)
Questions == {"How many orders were delivered?", "Top categories by sales"}

\* a chat-completion call: it raises (or has no content), or gives content
LLMReplies(contents) ==
    {[ok |-> FALSE, content |-> <<>>]} \cup
    {[ok |-> TRUE, content |-> c] : c \in contents}

SqlContents ==
    { <<FenceSql, " ", "SELECT status, COUNT(*) FROM orders GROUP BY status", " ", Fence>>,
      <<" ", "SELECT xyz FROM orders", " ">> }

AnswerContents ==
    { <<"There are 42 delivered orders.">>, <<" ", "No data.", " ">>, <<" ">> }

ColumnLists == { <<"category", "total">>, <<"id", "id">> }

RowCounts == (0..MaxSmallRows) \cup {RowLimit, RowLimit + 1}

\* cursor.fetchall(): n rows of two integer values
StoreRows(n) == [i \in 1..n |-> <<i, 1000 + i>>]

\* what sqlite does with the statement: the stage that raises and str(e),
\* or the rows and the column names of cursor.description
StoreFailures ==
    { [stage |-> "connect", msg |-> "unable to open database file"],
      [stage |-> "execute", msg |-> "no such column: xyz"],
      [stage |-> "execute", msg |-> ""],
      [stage |-> "description", msg |-> "'NoneType' object is not iterable"],
      [stage |-> "dumps", msg |-> "Object of type bytes is not JSON serializable"] }

StoreOutcomes ==
    { [stage |-> f.stage, msg |-> f.msg, rows |-> <<>>, cols |-> <<>>] :
        f \in StoreFailures } \cup
    { [stage |-> "ok", msg |-> "", rows |-> StoreRows(n), cols |-> c] :
        n \in RowCounts, c \in ColumnLists }

(***************************************************************************)
(* The nodes, as functions from the state (and the environment's answer)   *)
(* to the state they return.                                               *)
(***************************************************************************)
InitialState(q) ==
    [question |-> q, sql_query |-> EmptyStr, query_result |-> PlainStr(EmptyStr),
     final_answer |-> EmptyStr, error |-> EmptyStr, iteration |-> 0,
     needs_graph |-> "False", graph_type |-> "", graph_json |-> EmptyStr]

\* mutant of generate_sql: the attempt counter is left alone
generate_sql_no_increment(s, content) ==
    [s EXCEPT !.sql_query = CleanFences(content)]

generate_sql(s, content) ==
    [s EXCEPT !.sql_query = CleanFences(content),
              !.iteration = s.iteration + 1]

\* mutant of execute_sql: the failure branch leaves query_result as it was
execute_sql_keeps_result(s, out) ==
    IF out.stage = "ok"
    THEN [s EXCEPT !.query_result = FormatResults(out.rows, out.cols),
                   !.error = EmptyStr]
    ELSE [s EXCEPT !.error = <<"SQL Execution Error: ">> \o Text(out.msg)]

execute_sql(s, out) ==
    IF out.stage = "ok"
    THEN [s EXCEPT !.query_result = FormatResults(out.rows, out.cols),
                   !.error = EmptyStr]
    ELSE [s EXCEPT !.error = <<"SQL Execution Error: ">> \o Text(out.msg),
                   !.query_result = PlainStr(EmptyStr)]

\* connections execute_sql leaves open: conn.close() is reached only after
\* fetchall and cursor.description; when an exception skips it, the
\* connection is closed only if the interpreter reclaims the local at once
ConnectionsLeft(out, reclaimed) ==
    IF out.stage \in {"execute", "description"} /\ ~reclaimed THEN 1 ELSE 0

\* mutant of generate_answer: the answer step also clears the error
generate_answer_clears_error(s, content) ==
    [s EXCEPT !.final_answer = Strip(content), !.error = EmptyStr]

generate_answer(s, content) ==
    [s EXCEPT !.final_answer = Strip(content)]

Apology(error) ==
    <<"I apologize, but I'm having trouble generating a correct SQL query for your question. Error: ">>
        \o error

\* mutant of GivesUp: the branch is taken from the limit on
GivesUp_at_limit(s) == s.iteration >= GiveUpLimit

\* whether handle_error takes its give-up branch
GivesUp(s) == s.iteration > GiveUpLimit

\* mutants of handle_error: the error is not cleared; the counter is not
\* incremented
handle_error_keeps_error(s, content) ==
    IF GivesUp(s)
    THEN [s EXCEPT !.final_answer = Apology(s.error)]
    ELSE [s EXCEPT !.sql_query = CleanFences(content),
                   !.iteration = s.iteration + 1]

handle_error_no_increment(s, content) ==
    IF GivesUp(s)
    THEN [s EXCEPT !.final_answer = Apology(s.error)]
    ELSE [s EXCEPT !.sql_query = CleanFences(content),
                   !.error = EmptyStr]

handle_error(s, content) ==
    IF GivesUp(s)
    THEN [s EXCEPT !.final_answer = Apology(s.error)]
    ELSE [s EXCEPT !.sql_query = CleanFences(content),
                   !.error = EmptyStr,
                   !.iteration = s.iteration + 1]

\* mutants of should_retry: one more retry allowed; one fewer; the attempt
\* count tested before the error
should_retry_one_more(s) ==
    IF s.error # EmptyStr
    THEN IF s.iteration <= RetryLimit + 1 THEN "retry" ELSE "end"
    ELSE "success"

should_retry_one_fewer(s) ==
    IF s.error # EmptyStr
    THEN IF s.iteration < RetryLimit THEN "retry" ELSE "end"
    ELSE "success"

should_retry_count_first(s) ==
    IF s.iteration <= RetryLimit
    THEN "retry"
    ELSE IF s.error # EmptyStr THEN "end" ELSE "success"

\* mutant of should_retry: the attempt count is not tested
should_retry_unbounded(s) ==
    IF s.error # EmptyStr THEN "retry" ELSE "success"

should_retry(s) ==
    IF s.error # EmptyStr
    THEN IF s.iteration <= RetryLimit THEN "retry" ELSE "end"
    ELSE "success"

\* Python values a JSON document can put under a key, written as their repr;
\* Absent says the key is missing
Absent == "<absent>"

Truthy(v) == v \notin {"False", "None", "0", "''"}

\* dict.get(key, default)
DictGet(value, default) == IF value = Absent THEN default ELSE value

\* the planner's reply: the call raises, or its content does not parse as
\* JSON, or it is a JSON object with or without the two keys
PlannerReplies ==
    { [ok |-> FALSE, parses |-> FALSE, needs_graph |-> Absent, graph_type |-> Absent],
      [ok |-> TRUE, parses |-> FALSE, needs_graph |-> Absent, graph_type |-> Absent],
      [ok |-> TRUE, parses |-> TRUE, needs_graph |-> "True", graph_type |-> "bar"],
      [ok |-> TRUE, parses |-> TRUE, needs_graph |-> "False", graph_type |-> "none"],
      [ok |-> TRUE, parses |-> TRUE, needs_graph |-> "True", graph_type |-> "histogram"],
      [ok |-> TRUE, parses |-> TRUE, needs_graph |-> "'yes'", graph_type |-> Absent],
      [ok |-> TRUE, parses |-> TRUE, needs_graph |-> Absent, graph_type |-> "pie"] }

\* mutant of the guard: the marker is not tested
SkipsPlanner_no_marker(s) ==
    \/ ~NonEmptyResult(s.query_result)
    \/ s.error # EmptyStr

\* mutant of the guard: only the error is tested
SkipsPlanner_error_only(s) == s.error # EmptyStr

\* the guard of decide_graph_need: no results, or an error, means no graph
SkipsPlanner(s) ==
    \/ ~NonEmptyResult(s.query_result)
    \/ s.query_result = NoResultsMarker
    \/ s.error # EmptyStr

\* json.loads(content) at line 267 is inside no try block: a reply that does
\* not parse raises out of the node and out of the graph
OnUnparseable(s) == "raised"

\* mutant of decide_graph_need: the short-circuit also rewrites the answer
decide_graph_need_rewrites_answer(s, reply) ==
    IF SkipsPlanner(s)
    THEN [s EXCEPT !.needs_graph = "False", !.graph_type = "",
                   !.final_answer = <<"No chart is needed.">>]
    ELSE [s EXCEPT !.needs_graph = DictGet(reply.needs_graph, "False"),
                   !.graph_type = DictGet(reply.graph_type, "none")]

decide_graph_need(s, reply) ==
    IF SkipsPlanner(s)
    THEN [s EXCEPT !.needs_graph = "False", !.graph_type = ""]
    ELSE [s EXCEPT !.needs_graph = DictGet(reply.needs_graph, "False"),
                   !.graph_type = DictGet(reply.graph_type, "none")]

\* what happens inside the try block of generate_graph once the rows are
\* loaded: the model call raises, the generated code raises, it defines no
\* fig, fig.to_json() raises, or a figure is serialized
RenderOutcomes == {"llm_error", "exec_error", "no_fig", "to_json_error", "fig"}

FigureJson(graph_type) == <<"{plotly figure: ", graph_type, "}">>

\* whether generate_graph gets as far as its chat-completion call
RendererCallsModel(s) ==
    LET results == JsonLoads(s.query_result)
    IN  results.ok /\ results.value # <<>>

\* mutant of generate_graph: the except branch also reports into error
generate_graph_reports_error(s, outcome) ==
    IF RendererCallsModel(s) /\ outcome = "fig"
    THEN [s EXCEPT !.graph_json = FigureJson(s.graph_type)]
    ELSE [s EXCEPT !.graph_json = EmptyStr,
                   !.error = <<"Graph generation error: ">> \o Text(outcome)]

generate_graph(s, outcome) ==
    IF RendererCallsModel(s) /\ outcome = "fig"
    THEN [s EXCEPT !.graph_json = FigureJson(s.graph_type)]
    ELSE [s EXCEPT !.graph_json = EmptyStr]

\* mutant of should_generate_graph: the decision is ignored
should_generate_graph_always(s) == "generate_graph"

should_generate_graph(s) ==
    IF Truthy(s.needs_graph) THEN "generate_graph" ELSE "skip_graph"

(***************************************************************************)
(* The compiled graph: which node follows which.                           *)
(***************************************************************************)
\* mutant of the wiring: a repair goes back to synthesis
NextNode_regenerate(node, s) ==
    CASE node = "generate_sql" -> "execute_sql"
      [] node = "execute_sql" ->
            (CASE should_retry(s) = "success" -> "generate_answer"
               [] should_retry(s) = "retry" -> "handle_error"
               [] should_retry(s) = "end" -> "generate_answer")
      [] node = "handle_error" -> "generate_sql"
      [] node = "generate_answer" -> "decide_graph_need"
      [] node = "decide_graph_need" ->
            (CASE should_generate_graph(s) = "generate_graph" -> "generate_graph"
               [] should_generate_graph(s) = "skip_graph" -> "END")
      [] node = "generate_graph" -> "END"

NextNode(node, s) ==
    CASE node = "generate_sql" -> "execute_sql"
      [] node = "execute_sql" ->
            (CASE should_retry(s) = "success" -> "generate_answer"
               [] should_retry(s) = "retry" -> "handle_error"
               [] should_retry(s) = "end" -> "generate_answer")
      [] node = "handle_error" -> "execute_sql"
      [] node = "generate_answer" -> "decide_graph_need"
      [] node = "decide_graph_need" ->
            (CASE should_generate_graph(s) = "generate_graph" -> "generate_graph"
               [] should_generate_graph(s) = "skip_graph" -> "END")
      [] node = "generate_graph" -> "END"

\* the runner stops with GraphRecursionError when the step ceiling is
\* reached before the graph ends
Continue(node) ==
    IF node # "END" /\ Len(trace) + 1 >= RecursionLimit THEN "raised" ELSE node

Called(node) == [llm_calls EXCEPT ![node] = @ + 1]

\* mutant of OnModelFailure: the node is run again
OnModelFailure_retry(node) == Continue(node)

\* a chat-completion call that raises inside generate_sql, generate_answer,
\* handle_error or decide_graph_need is caught nowhere in the node: the
\* exception leaves the graph
OnModelFailure(node) == "raised"

(***************************************************************************)
(* The event stream of process_question_stream.                            *)
(***************************************************************************)
\* the conditional-edge function that runs inside a node, if it has one
Router(node) ==
    CASE node = "execute_sql" -> <<"should_retry">>
      [] node = "decide_graph_need" -> <<"should_generate_graph">>
      [] OTHER -> <<>>

\* a raw event of astream_events; output is <<>> when the event carries
\* none, <<d>> when it carries the value d
ChainStart(name) == [event |-> "on_chain_start", name |-> name, output |-> <<>>]

ChainEnd(name, output) ==
    [event |-> "on_chain_end", name |-> name, output |-> output]

\* the runs of the routing functions; what they return is a route, not a
\* mapping over the fields of the state
RECURSIVE Bracket(_)
Bracket(names) ==
    IF names = <<>> THEN <<>>
    ELSE <<ChainStart(Head(names)), ChainEnd(Head(names), <<[route |-> Head(names)]>>)>>
            \o Bracket(Tail(names))

\* what astream_events yields while a node runs: the start of the node, the
\* runs nested in it, and its end, carrying the state the node returned,
\* unless the node raised
RawEvents(node, completed, returned) ==
    <<ChainStart(node)>> \o
    (IF completed THEN Bracket(Router(node)) \o <<ChainEnd(node, <<returned>>)>>
                  ELSE <<>>)

\* current_state.update(output)
Update(target, output) ==
    [k \in DOMAIN target |-> IF k \in DOMAIN output THEN output[k] ELSE target[k]]

\* whether the event is a node's end with a non-empty output
EndsNode(raw) ==
    /\ raw.event = "on_chain_end"
    /\ raw.name \in Nodes
    /\ raw.output # <<>>
    /\ DOMAIN raw.output[1] # {}

\* current_state after the generator has handled one raw event
Advance(cur, raw) == IF EndsNode(raw) THEN Update(cur, raw.output[1]) ELSE cur

\* mutant of Yielded: the node-name filter is missing
Yielded_unfiltered(raw, cur) ==
    IF raw.event = "on_chain_start"
    THEN <<[type |-> "node_start", node |-> raw.name, state |-> <<cur>>]>>
    ELSE IF raw.event = "on_chain_end"
    THEN IF raw.output # <<>>
         THEN <<[type |-> "node_end", node |-> raw.name,
                 state |-> <<Update(cur, raw.output[1])>>]>>
         ELSE <<>>
    ELSE <<>>

\* the event the generator yields for one raw event, if any; state is the
\* value of current_state the event carries (a node_start carries the
\* dictionary itself, a node_end a copy of it after the update)
Yielded(raw, cur) ==
    IF raw.event = "on_chain_start"
    THEN IF raw.name \in Nodes
         THEN <<[type |-> "node_start", node |-> raw.name, state |-> <<cur>>]>>
         ELSE <<>>
    ELSE IF raw.event = "on_chain_end"
    THEN IF EndsNode(raw)
         THEN <<[type |-> "node_end", node |-> raw.name,
                 state |-> <<Advance(cur, raw)>>]>>
         ELSE <<>>
    ELSE <<>>

RECURSIVE YieldAll(_, _)
YieldAll(raws, cur) ==
    IF raws = <<>> THEN <<>>
    ELSE Yielded(Head(raws), cur) \o YieldAll(Tail(raws), Advance(cur, Head(raws)))

RECURSIVE AdvanceAll(_, _)
AdvanceAll(raws, cur) ==
    IF raws = <<>> THEN cur ELSE AdvanceAll(Tail(raws), Advance(cur, Head(raws)))

\* the events the generator yields while one node runs
Emit(node, completed, returned) ==
    YieldAll(RawEvents(node, completed, returned), current_state)

\* the type and the node of each event
Headers(es) == [i \in 1..Len(es) |-> [type |-> es[i].type, node |-> es[i].node]]

\* the state the last node_end event of es carries, prev if es has none
RECURSIVE LastSnapshot(_, _)
LastSnapshot(es, prev) ==
    IF es = <<>> THEN prev
    ELSE LastSnapshot(Tail(es), IF Head(es).type = "node_end" THEN Head(es).state
                                                              ELSE prev)

\* the result the last final event of es carries, prev if es has none
RECURSIVE LastResult(_, _)
LastResult(es, prev) ==
    IF es = <<>> THEN prev
    ELSE LastResult(Tail(es), IF Head(es).type = "final" THEN Head(es).state
                                                          ELSE prev)

\* the generator while one node runs: what it yields and what it keeps
Streamed(node, completed, returned) ==
    /\ events' = events \o Headers(Emit(node, completed, returned))
    /\ snapshot' = LastSnapshot(Emit(node, completed, returned), snapshot)
    /\ current_state' = AdvanceAll(RawEvents(node, completed, returned),
                                   current_state)

\* mutant of TerminalEvents: the final result is yielded after the error too
TerminalEvents_final_after_error(p, cur) ==
    IF p = "raised"
    THEN <<[type |-> "error", node |-> "", state |-> <<>>],
           [type |-> "final", node |-> "", state |-> <<cur>>]>>
    ELSE YieldAll(<<ChainEnd("LangGraph", <<state>>)>>, cur)
            \o <<[type |-> "final", node |-> "", state |-> <<cur>>]>>

\* how the generator ends: the final result, which is current_state, after
\* the graph's own end event, or the error the except clause reports
TerminalEvents(p, cur) ==
    IF p = "raised"
    THEN <<[type |-> "error", node |-> "", state |-> <<>>]>>
    ELSE YieldAll(<<ChainEnd("LangGraph", <<state>>)>>, cur)
            \o <<[type |-> "final", node |-> "", state |-> <<cur>>]>>

NothingFetched == [n |-> 0 - 1, rows |-> <<>>, cols |-> <<>>]

(***************************************************************************)
(* The run.                                                                *)
(***************************************************************************)
Init ==
    /\ \E q \in Questions : state = InitialState(q)
    /\ pc = "generate_sql"
    /\ trace = <<>>
    /\ first_exec = "none"
    /\ last_exec = "none"
    /\ last_error = EmptyStr
    /\ llm_calls = [n \in Nodes |-> 0]
    /\ open_conns = 0
    /\ llm_fault = FALSE
    /\ fetched = NothingFetched
    /\ planner = "none"
    /\ rendered = "none"
    /\ current_state = state
    /\ events = Headers(YieldAll(<<ChainStart("LangGraph")>>, current_state))
    /\ snapshot = <<>>
    /\ result = <<>>
    /\ writers = <<>>
    /\ stream = "open"

GenerateSqlStep ==
    /\ pc = "generate_sql"
    /\ trace' = Append(trace, "generate_sql")
    /\ llm_calls' = Called("generate_sql")
    /\ \E reply \in LLMReplies(SqlContents) :
          IF reply.ok
          THEN /\ state' = generate_sql(state, reply.content)
               /\ pc' = Continue(NextNode("generate_sql", state'))
               /\ llm_fault' = llm_fault
               /\ Streamed("generate_sql", TRUE, state')
          ELSE /\ state' = state
               /\ pc' = OnModelFailure("generate_sql")
               /\ llm_fault' = TRUE
               /\ Streamed("generate_sql", FALSE, state')
    /\ UNCHANGED <<first_exec, last_exec, last_error, open_conns, fetched,
                   planner, rendered, writers, result, stream>>

ExecuteSqlStep ==
    /\ pc = "execute_sql"
    /\ trace' = Append(trace, "execute_sql")
    /\ \E out \in StoreOutcomes, reclaimed \in BOOLEAN :
          /\ state' = execute_sql(state, out)
          /\ open_conns' = open_conns + ConnectionsLeft(out, reclaimed)
          /\ last_exec' = IF out.stage = "ok" THEN "ok" ELSE "fail"
          /\ last_error' = IF out.stage = "ok" THEN last_error ELSE state'.error
          /\ fetched' = IF out.stage = "ok"
                        THEN [n |-> Len(out.rows), rows |-> out.rows, cols |-> out.cols]
                        ELSE fetched
    /\ first_exec' = IF first_exec = "none" THEN last_exec' ELSE first_exec
    /\ pc' = Continue(NextNode("execute_sql", state'))
    /\ Streamed("execute_sql", TRUE, state')
    /\ UNCHANGED <<llm_calls, llm_fault, planner, rendered, writers, result, stream>>

HandleErrorStep ==
    /\ pc = "handle_error"
    /\ trace' = Append(trace, "handle_error")
    /\ llm_calls' = IF GivesUp(state) THEN llm_calls ELSE Called("handle_error")
    /\ \E reply \in LLMReplies(SqlContents) :
          IF reply.ok \/ GivesUp(state)
          THEN /\ state' = handle_error(state, reply.content)
               /\ pc' = Continue(NextNode("handle_error", state'))
               /\ llm_fault' = llm_fault
               /\ Streamed("handle_error", TRUE, state')
               /\ writers' = IF GivesUp(state)
                             THEN Append(writers, "handle_error")
                             ELSE writers
          ELSE /\ state' = state
               /\ pc' = OnModelFailure("handle_error")
               /\ llm_fault' = TRUE
               /\ Streamed("handle_error", FALSE, state')
               /\ writers' = writers
    /\ UNCHANGED <<first_exec, last_exec, last_error, open_conns, fetched,
                   planner, rendered, result, stream>>

GenerateAnswerStep ==
    /\ pc = "generate_answer"
    /\ trace' = Append(trace, "generate_answer")
    /\ llm_calls' = Called("generate_answer")
    /\ \E reply \in LLMReplies(AnswerContents) :
          IF reply.ok
          THEN /\ state' = generate_answer(state, reply.content)
               /\ pc' = Continue(NextNode("generate_answer", state'))
               /\ llm_fault' = llm_fault
               /\ Streamed("generate_answer", TRUE, state')
               /\ writers' = Append(writers, "generate_answer")
          ELSE /\ state' = state
               /\ pc' = OnModelFailure("generate_answer")
               /\ llm_fault' = TRUE
               /\ Streamed("generate_answer", FALSE, state')
               /\ writers' = writers
    /\ UNCHANGED <<first_exec, last_exec, last_error, open_conns, fetched,
                   planner, rendered, result, stream>>

DecideGraphNeedStep ==
    /\ pc = "decide_graph_need"
    /\ trace' = Append(trace, "decide_graph_need")
    /\ llm_calls' = IF SkipsPlanner(state) THEN llm_calls
                                           ELSE Called("decide_graph_need")
    /\ \E reply \in PlannerReplies :
          IF SkipsPlanner(state) \/ (reply.ok /\ reply.parses)
          THEN /\ state' = decide_graph_need(state, reply)
               /\ pc' = Continue(NextNode("decide_graph_need", state'))
               /\ llm_fault' = llm_fault
               /\ planner' = IF SkipsPlanner(state) THEN "skipped" ELSE "decided"
               /\ Streamed("decide_graph_need", TRUE, state')
          ELSE /\ state' = state
               /\ pc' = IF reply.ok THEN OnUnparseable(state)
                                    ELSE OnModelFailure("decide_graph_need")
               /\ llm_fault' = TRUE
               /\ planner' = IF reply.ok THEN "unparseable" ELSE "call_failed"
               /\ Streamed("decide_graph_need", FALSE, state')
    /\ UNCHANGED <<first_exec, last_exec, last_error, open_conns, fetched,
                   rendered, writers, result, stream>>

GenerateGraphStep ==
    /\ pc = "generate_graph"
    /\ trace' = Append(trace, "generate_graph")
    /\ llm_calls' = IF RendererCallsModel(state) THEN Called("generate_graph")
                                                 ELSE llm_calls
    /\ \E outcome \in RenderOutcomes :
          /\ state' = generate_graph(state, outcome)
          /\ rendered' = IF RendererCallsModel(state) THEN outcome ELSE "no_rows"
    /\ pc' = Continue(NextNode("generate_graph", state'))
    /\ Streamed("generate_graph", TRUE, state')
    /\ UNCHANGED <<first_exec, last_exec, last_error, open_conns, llm_fault,
                   fetched, planner, writers, result, stream>>

\* the generator's last yield, once astream_events is exhausted or has raised
StreamEndStep ==
    /\ pc \in {"END", "raised"}
    /\ stream = "open"
    /\ events' = events \o Headers(TerminalEvents(pc, current_state))
    /\ result' = LastResult(TerminalEvents(pc, current_state), result)
    /\ stream' = "closed"
    /\ UNCHANGED <<state, pc, trace, first_exec, last_exec, last_error,
                   llm_calls, open_conns, llm_fault, fetched, planner, rendered,
                   writers, current_state, snapshot>>

Next ==
    \/ GenerateSqlStep
    \/ ExecuteSqlStep
    \/ HandleErrorStep
    \/ GenerateAnswerStep
    \/ DecideGraphNeedStep
    \/ GenerateGraphStep
    \/ StreamEndStep

Spec == Init /\ [][Next]_vars

\* the runner takes the next step as long as there is one
LiveSpec == Spec /\ WF_vars(Next)

(***************************************************************************)
(* Properties.                                                             *)
(***************************************************************************)
Last(seq) == seq[Len(seq)]

\* whether the string needle occurs in the string haystack
Contains(haystack, needle) ==
    \E i \in 0..(Len(haystack) - Len(needle)) :
        SubSeq(haystack, i + 1, i + Len(needle)) = needle

Ran(node) == \E i \in 1..Len(trace) : trace[i] = node

Runs(node) == Cardinality({i \in 1..Len(trace) : trace[i] = node})

\* traversals of the cycle execute_sql -> handle_error -> execute_sql
Cycles ==
    Cardinality({i \in 2..Len(trace) - 1 :
                    /\ trace[i - 1] = "execute_sql"
                    /\ trace[i] = "handle_error"
                    /\ trace[i + 1] = "execute_sql"})

JustExecuted == trace # <<>> /\ Last(trace) = "execute_sql" /\ pc # "raised"

\* C1: execute_sql runs at most 4 times and the repair cycle is taken at
\* most 3 times in every run, and a run in which every language-model call
\* returns a usable reply reaches the end of the graph.
C1_BoundedRepair ==
    /\ [](Runs("execute_sql") <= 4 /\ Cycles <= 3)
    /\ ([]~llm_fault => <>(pc = "END"))

\* C1 witness: a run whose four execution attempts all failed has ended.
C1_Witness ==
    /\ pc = "END"
    /\ Runs("execute_sql") = 4
    /\ Cycles = 3
    /\ last_exec = "fail"

\* C2 (as claimed): when the retry budget is exhausted, the run ends with a
\* non-empty final_answer that contains the last execution error.
C2_ExhaustedAnswerCarriesError ==
    (pc = "END" /\ state.error # EmptyStr /\ state.iteration > 3)
        => /\ state.final_answer # EmptyStr
           /\ Contains(state.final_answer, last_error)

\* C3 (as claimed): when the answer step is entered with an error and
\* iteration > 3, it writes the fixed apology and calls no language model.
C3_ExhaustionSkipsComposer ==
    (Ran("generate_answer") /\ pc # "raised"
        /\ state.error # EmptyStr /\ state.iteration > 3)
        => /\ state.final_answer = Apology(state.error)
           /\ llm_calls["generate_answer"] = 0

\* C4: error and query_result are never both non-empty; right after
\* execute_sql exactly one is: on success error is "" and query_result is
\* the serialized rows or the marker, on failure error is non-empty and
\* query_result is "", whatever query_result held before the attempt.
C4_ErrorXorResult ==
    /\ ~(state.error # EmptyStr /\ NonEmptyResult(state.query_result))
    /\ JustExecuted =>
          /\ (state.error # EmptyStr) # NonEmptyResult(state.query_result)
          /\ last_exec = "ok" =>
                /\ state.error = EmptyStr
                /\ \/ state.query_result = NoResultsMarker
                   \/ /\ state.query_result.kind = "json"
                      /\ state.query_result.doc # <<>>
          /\ last_exec = "fail" =>
                /\ state.error # EmptyStr
                /\ state.query_result = PlainStr(EmptyStr)
    /\ pc = "execute_sql" =>
          \A out \in StoreOutcomes :
          \A before \in {state.query_result, NoResultsMarker,
                         JsonDumps(<<DictZip(<<"id">>, <<1>>)>>)} :
             LET after == execute_sql([state EXCEPT !.query_result = before], out)
             IN  (after.error # EmptyStr) # NonEmptyResult(after.query_result)

\* C4 witness: a retried execution has just failed.
C4_Witness ==
    /\ JustExecuted
    /\ Runs("execute_sql") >= 2
    /\ last_exec = "fail"
    /\ state.error # EmptyStr
    /\ state.query_result = PlainStr(EmptyStr)

\* C5: after execute_sql the graph goes to the answer step when error is
\* empty, to the repair step when error is non-empty and iteration <= 3, and
\* to the answer step when error is non-empty and iteration > 3; exactly one
\* of the three cases holds, for every error and every iteration.
C5_Routing ==
    /\ JustExecuted =>
          /\ state.error = EmptyStr => pc = "generate_answer"
          /\ (state.error # EmptyStr /\ state.iteration <= 3) => pc = "handle_error"
          /\ (state.error # EmptyStr /\ state.iteration > 3) => pc = "generate_answer"
    /\ \A e \in {EmptyStr, state.error, <<"SQL Execution Error: ">>} :
       \A it \in 0..6 :
          LET s == [state EXCEPT !.error = e, !.iteration = it]
              success == e = EmptyStr
              repair == e # EmptyStr /\ it <= 3
              exhausted == e # EmptyStr /\ it > 3
          IN  /\ Cardinality({c \in {"s", "r", "x"} :
                                \/ c = "s" /\ success
                                \/ c = "r" /\ repair
                                \/ c = "x" /\ exhausted}) = 1
              /\ success <=> should_retry(s) = "success"
              /\ repair <=> should_retry(s) = "retry"
              /\ exhausted <=> should_retry(s) = "end"

\* C5 witness: the fourth attempt failed and the graph goes to the answer step.
C5_Witness ==
    /\ JustExecuted
    /\ state.error # EmptyStr
    /\ state.iteration > 3
    /\ pc = "generate_answer"

\* C6: handle_error runs only after a failed execution, a completed repair
\* leaves iteration one higher and error empty, and error is empty whenever
\* execute_sql is about to run.
C6_RepairClearsError ==
    /\ [](pc = "handle_error" => (last_exec = "fail" /\ state.error # EmptyStr))
    /\ [][(pc = "handle_error" /\ pc' # "raised")
            => /\ state'.iteration = state.iteration + 1
               /\ state'.error = EmptyStr]_vars
    /\ [](pc = "execute_sql" => state.error = EmptyStr)

\* C6 witness: a retry is about to execute after a repair.
C6_Witness ==
    /\ pc = "execute_sql"
    /\ trace # <<>>
    /\ Last(trace) = "handle_error"
    /\ state.error = EmptyStr
    /\ last_error # EmptyStr

\* C7: when the first execute_sql succeeds, handle_error is never entered
\* and iteration is 1 from then on, the final state included.
C7_FirstTryNoRepair ==
    first_exec = "ok" =>
        /\ ~Ran("handle_error")
        /\ pc # "handle_error"
        /\ state.iteration = 1

\* C7 witness: a run whose first execution succeeded has ended.
C7_Witness == first_exec = "ok" /\ pc = "END"

\* C8: iteration starts at 0 and never decreases; a completed generate_sql
\* and a completed handle_error add exactly 1, the other four nodes leave it
\* unchanged.
C8_IterationMonotone ==
    /\ state.iteration = 0
    /\ [][/\ state'.iteration >= state.iteration
          /\ (pc \in {"generate_sql", "handle_error"} /\ pc' # "raised")
                => state'.iteration = state.iteration + 1
          /\ pc \in {"execute_sql", "generate_answer", "decide_graph_need",
                     "generate_graph"}
                => state'.iteration = state.iteration]_vars

\* C8 witness: three repairs were completed after the synthesis.
C8_Witness == state.iteration = 4 /\ Runs("handle_error") = 3

\* the step sequence of a completed run: generate_sql, execute_sql, k pairs
\* (handle_error, execute_sql), generate_answer, decide_graph_need and
\* possibly generate_graph
CompletedRunShape(t) ==
    \E k \in 0..Len(t) :
        /\ Len(t) \in {2 * k + 4, 2 * k + 5}
        /\ t[1] = "generate_sql"
        /\ t[2] = "execute_sql"
        /\ \A i \in 1..k : t[2 * i + 1] = "handle_error" /\ t[2 * i + 2] = "execute_sql"
        /\ t[2 * k + 3] = "generate_answer"
        /\ t[2 * k + 4] = "decide_graph_need"
        /\ Len(t) = 2 * k + 5 => t[2 * k + 5] = "generate_graph"

\* C9: every completed run is generate_sql, execute_sql, zero or more
\* (handle_error, execute_sql) pairs, generate_answer, decide_graph_need,
\* optionally generate_graph, and nothing after it.
C9_StepOrder ==
    pc = "END" =>
        /\ CompletedRunShape(trace)
        /\ Runs("generate_sql") = 1
        /\ Runs("generate_answer") = 1
        /\ Runs("decide_graph_need") = 1
        /\ Runs("generate_graph") <= 1

\* C9 witness: a completed run with a repair and a rendered graph.
C9_Witness ==
    /\ pc = "END"
    /\ Ran("handle_error")
    /\ Last(trace) = "generate_graph"

\* C10 (as claimed): no connection opened by execute_sql is still open once
\* it has returned.
C10_ConnectionsClosed == open_conns = 0

\* the fields of AgentState other than graph_json
SameButGraph(s1, s2) ==
    /\ s1.question = s2.question
    /\ s1.sql_query = s2.sql_query
    /\ s1.query_result = s2.query_result
    /\ s1.final_answer = s2.final_answer
    /\ s1.error = s2.error

\* C11: when decide_graph_need is entered with query_result empty or equal
\* to the marker, or with error non-empty, it sets needs_graph to false, makes
\* no language-model call, and the run ends without the render step.
C11_ShortCircuit ==
    /\ [][(/\ pc = "decide_graph_need"
           /\ trace' # trace
           /\ \/ state.query_result = PlainStr(EmptyStr)
              \/ state.query_result = NoResultsMarker
              \/ state.error # EmptyStr)
          => /\ state'.needs_graph = "False"
             /\ llm_calls' = llm_calls
             /\ pc' = "END"]_vars
    /\ [][pc = "END" => trace' = trace]_vars

\* C11 witness: the planner was skipped for an empty result and the run ended.
C11_Witness ==
    /\ pc = "END"
    /\ Last(trace) = "decide_graph_need"
    /\ state.query_result = NoResultsMarker
    /\ state.needs_graph = "False"
    /\ llm_calls["decide_graph_need"] = 0

\* C12 (as claimed): a planner reply that does not parse makes
\* decide_graph_need set needs_graph to false and return normally, and the
\* stream of the run ends with a final result.
C12_UnparseableMeansNoGraph ==
    planner = "unparseable" =>
        /\ pc # "raised"
        /\ state.needs_graph = "False"
        /\ stream = "closed" => Last(events).type = "final"

\* C13 (as claimed): once decide_graph_need has completed, graph_type is one
\* of bar, line, pie, scatter, none and needs_graph is a boolean.
C13_DecisionTyped ==
    planner \in {"skipped", "decided"} =>
        /\ state.graph_type \in {"bar", "line", "pie", "scatter", "none"}
        /\ state.needs_graph \in {"True", "False"}

\* C14: graph_json is non-empty only if needs_graph is true (truthy, as
\* should_generate_graph tests it) and the render step produced a figure;
\* a run that ends with needs_graph false ends with graph_json empty.
C14_GraphOnlyWhenRendered ==
    /\ state.graph_json # EmptyStr =>
          /\ Truthy(state.needs_graph)
          /\ Ran("generate_graph")
          /\ rendered = "fig"
    /\ (pc = "END" /\ ~Truthy(state.needs_graph)) => state.graph_json = EmptyStr

\* C14 witness: a run ended with a rendered graph.
C14_Witness ==
    /\ pc = "END"
    /\ state.graph_json # EmptyStr
    /\ rendered = "fig"

\* C15: when the model call of generate_graph fails, the generated code
\* raises an error, it defines no fig, or the figure cannot be serialized,
\* the step returns with graph_json empty, the graph ends, and question,
\* sql_query, query_result, final_answer and error are unchanged.
C15_RenderFailureContained ==
    /\ [][(/\ pc = "generate_graph"
           /\ trace' # trace
           /\ rendered' \in {"llm_error", "exec_error", "no_fig", "to_json_error"})
          => /\ state'.graph_json = EmptyStr
             /\ pc' = "END"
             /\ SameButGraph(state, state')]_vars
    /\ []((Ran("generate_graph") /\ stream = "closed")
            => Last(events).type = "final")

\* C15 witness: the generated code raised and the run ended with its stream.
C15_Witness ==
    /\ rendered = "exec_error"
    /\ pc = "END"
    /\ stream = "closed"
    /\ state.graph_json = EmptyStr
    /\ state.final_answer # EmptyStr

\* C16: a failed language-model call in generate_sql, generate_answer or
\* decide_graph_need leaves the graph as an exception: the node is not run
\* again, no later node runs, and the stream ends with an error event and
\* holds no final event.
C16_ModelFailureFatal ==
    /\ [][(/\ pc \in {"generate_sql", "generate_answer", "decide_graph_need"}
           /\ llm_fault' /\ ~llm_fault
           /\ planner' # "unparseable")
          => /\ pc' = "raised"
             /\ state' = state]_vars
    /\ [][pc = "raised" => (trace' = trace /\ pc' = "raised")]_vars
    /\ []((pc = "raised" /\ stream = "closed")
            => /\ Last(events).type = "error"
               /\ \A i \in 1..Len(events) : events[i].type # "final")

\* C16 witness: the answer step's call failed and the stream has ended.
C16_Witness ==
    /\ pc = "raised"
    /\ llm_fault
    /\ Last(trace) = "generate_answer"
    /\ Runs("generate_answer") = 1
    /\ stream = "closed"

AgentStateFields ==
    {"question", "sql_query", "query_result", "final_answer", "error",
     "iteration", "needs_graph", "graph_type", "graph_json"}

\* C17: a run whose execution attempts all failed still reaches the end
\* (unless a language-model call fails) with every field present and error
\* equal to the last attempt's error; in a completed run error is empty
\* exactly when the last execute_sql succeeded.
C17_ExecutionFailureNotFatal ==
    /\ [](pc = "END" =>
            /\ DOMAIN state = AgentStateFields
            /\ state.error = EmptyStr <=> last_exec = "ok"
            /\ last_exec = "fail" =>
                  (state.error # EmptyStr /\ state.error = last_error))
    /\ ((pc = "generate_answer" /\ last_exec = "fail")
            ~> (pc = "END" \/ llm_fault))

\* C17 witness: a run ended after four failed attempts, the error kept.
C17_Witness ==
    /\ pc = "END"
    /\ stream = "closed"
    /\ first_exec = "fail"
    /\ last_exec = "fail"
    /\ Runs("execute_sql") = 4
    /\ state.error = last_error
    /\ state.error # EmptyStr

\* C18: a successful execution that fetched no row stores the marker, which
\* is not the serialization of an empty list; one that fetched n > 0 rows
\* stores the serialization of the first min(n, 100) rows in store order.
C18_RowsTruncatedInOrder ==
    (JustExecuted /\ last_exec = "ok") =>
        /\ fetched.n = 0 =>
              /\ state.query_result = NoResultsMarker
              /\ state.query_result # JsonDumps(<<>>)
        /\ fetched.n > 0 =>
              /\ state.query_result.kind = "json"
              /\ Len(state.query_result.doc)
                    = (IF fetched.n < 100 THEN fetched.n ELSE 100)
              /\ \A i \in 1..Len(state.query_result.doc) :
                    state.query_result.doc[i] = DictZip(fetched.cols, fetched.rows[i])

\* C18 witness: 101 rows were fetched and 100 serialized.
C18_Witness ==
    /\ JustExecuted
    /\ last_exec = "ok"
    /\ fetched.n = 101
    /\ Len(state.query_result.doc) = 100

\* the column/value pairs of a fetched row, and those of a parsed mapping
RowPairs(cols, row) == {<<cols[j], row[j]>> : j \in 1..Len(cols)}

DictPairs(d) == {<<k, d[k]>> : k \in DOMAIN d}

\* C19 (as claimed): every serialized row, parsed back, holds exactly the
\* column/value pairs of the fetched row, repeated column names included.
C19_RowRoundTrip ==
    (JustExecuted /\ last_exec = "ok" /\ fetched.n > 0) =>
        LET parsed == JsonLoads(state.query_result)
        IN  /\ parsed.ok
            /\ \A i \in 1..Len(parsed.value) :
                  DictPairs(parsed.value[i]) = RowPairs(fetched.cols, fetched.rows[i])

NodeStarts == SelectSeq(events, LAMBDA e : e.type = "node_start")

\* C20: in the event stream every node_start is directly followed by the
\* node_end of the same node (or by the error event when the node raised),
\* every node_end directly follows its node_start, and the node_start
\* events name the nodes in the order the graph ran them.
C20_OneStepAtATime ==
    /\ \A i \in 1..Len(events) :
          /\ (events[i].type = "node_start" /\ i < Len(events)) =>
                \/ /\ events[i + 1].type = "node_end"
                   /\ events[i + 1].node = events[i].node
                \/ events[i + 1].type = "error"
          /\ events[i].type = "node_end" =>
                /\ i > 1
                /\ events[i - 1].type = "node_start"
                /\ events[i - 1].node = events[i].node
    /\ [i \in 1..Len(NodeStarts) |-> NodeStarts[i].node] = trace

\* C20 witness: the stream of a run of eleven steps has ended.
C20_Witness ==
    /\ stream = "closed"
    /\ Len(trace) = 11
    /\ Len(events) = 23
    /\ Last(events).type = "final"

\* C21: final_answer is empty as long as no node has assigned it, a step
\* that does not assign it leaves it as it is (decide_graph_need and
\* generate_graph among them), and when the graph reaches END exactly one
\* assignment has been made.
C21_AnswerWrittenOnce ==
    [][ /\ writers = <<>> => state.final_answer = EmptyStr
        /\ writers' = writers => state'.final_answer = state.final_answer
        /\ pc \in {"decide_graph_need", "generate_graph"} =>
              /\ writers' = writers
              /\ state'.final_answer = state.final_answer
        /\ pc' = "END" => Len(writers') = 1 ]_vars

\* C21 witness: a run that went through the planner and the renderer ended
\* with the answer the answer step wrote.
C21_Witness ==
    /\ pc = "END"
    /\ writers = <<"generate_answer">>
    /\ state.final_answer = <<"There are 42 delivered orders.">>
    /\ Ran("generate_graph")

\* C22: handle_error is entered only with error non-empty and iteration in
\* 1..3, so its give-up branch is never taken.
C22_GiveUpUnreachable ==
    /\ pc = "handle_error" =>
          /\ state.error # EmptyStr
          /\ state.iteration \in 1..3
          /\ ~GivesUp(state)
    /\ \A i \in 1..Len(writers) : writers[i] # "handle_error"

\* C22 witness: the third repair is about to run.
C22_Witness ==
    /\ pc = "handle_error"
    /\ state.iteration = 3
    /\ Runs("handle_error") = 2

\* C23: when execute_sql is about to run for the k-th time iteration is k;
\* iteration is within 0..4 in every state; when the run has stopped it is
\* the number of executions made.
C23_IterationCountsExecutions ==
    /\ pc = "execute_sql" => state.iteration = Runs("execute_sql") + 1
    /\ state.iteration \in 0..4
    /\ pc \in {"END", "raised"} => state.iteration = Runs("execute_sql")

\* C23 witness: a run of four executions has ended.
C23_Witness ==
    /\ pc = "END"
    /\ Runs("execute_sql") = 4
    /\ state.iteration = 4

\* the most steps the wiring allows: one synthesis, the executions, the
\* repairs, one answer, one planning, one render
StepCeiling == 1 + (RetryLimit + 1) + RetryLimit + 1 + 1 + 1

\* C24: a run takes at most 11 steps (1 synthesis, at most 4 executions, at
\* most 3 repairs, 1 answer, 1 planning, at most 1 render), and the step
\* ceiling of 50 never stops a run: a run that raised did so on a
\* language-model failure.
C24_StepCeilingNeverReached ==
    /\ StepCeiling = 11
    /\ Len(trace) <= 11
    /\ Runs("generate_sql") <= 1
    /\ Runs("execute_sql") <= 4
    /\ Runs("handle_error") <= 3
    /\ Runs("generate_answer") <= 1
    /\ Runs("decide_graph_need") <= 1
    /\ Runs("generate_graph") <= 1
    /\ Len(trace) + 1 < RecursionLimit
    /\ pc = "raised" => llm_fault

\* C24 witness: a run of eleven steps has ended.
C24_Witness ==
    /\ pc = "END"
    /\ Len(trace) = 11
    /\ Runs("execute_sql") = 4
    /\ Runs("handle_error") = 3

\* C25: generate_graph runs only with needs_graph true, error empty and
\* query_result the serialization of a non-empty row list, and only when the
\* latest execution succeeded.
C25_RenderPrecondition ==
    /\ pc = "generate_graph" =>
          /\ Truthy(state.needs_graph)
          /\ state.error = EmptyStr
          /\ state.query_result.kind = "json"
          /\ state.query_result.doc # <<>>
          /\ state.query_result # NoResultsMarker
          /\ state.query_result # PlainStr(EmptyStr)
          /\ last_exec = "ok"
    /\ Ran("generate_graph") => last_exec = "ok" /\ rendered # "no_rows"

\* C25 witness: the renderer is about to run on the rows of a repaired
\* query.
C25_Witness ==
    /\ pc = "generate_graph"
    /\ state.needs_graph = "True"
    /\ first_exec = "fail"
    /\ last_exec = "ok"

Terminals == {i \in 1..Len(events) : events[i].type \in {"final", "error"}}

\* C26: a stream that has run to its end holds exactly one terminal event,
\* final or error, and it is the last event; no terminal event is yielded
\* before the end; the result a final event carries is the state snapshot of
\* the last node_end event.
C26_OneTerminalEvent ==
    /\ stream = "open" => Terminals = {} /\ result = <<>>
    /\ stream = "closed" =>
          /\ Terminals = {Len(events)}
          /\ Last(events).type = "final" =>
                /\ \E i \in 1..Len(events) : events[i].type = "node_end"
                /\ snapshot # <<>>
                /\ result = snapshot
          /\ Last(events).type = "error" => result = <<>>

\* C26 witness: a stream ended with a final event right after the
\* renderer's node_end, carrying the figure.
C26_Witness ==
    /\ stream = "closed"
    /\ Last(events).type = "final"
    /\ events[Len(events) - 1] = [type |-> "node_end", node |-> "generate_graph"]
    /\ result # <<>>
    /\ result[1].graph_json # EmptyStr
    /\ result[1] = state

====
